---- MODULE Spec2Model ----
(***************************************************************************)
(* Mattress price tracker (app.py): the schedule store, the price check    *)
(* job and the polling scheduler that runs inside one Streamlit session.   *)
(*                                                                         *)
(* Spec      : one browser session of main(), its callbacks and the        *)
(*             scheduled_check_fragment timer, over a wall clock.          *)
(* SpecStore : init_database, save_schedule and load_schedule called in    *)
(*             any order on a store drawn from a bounded set.              *)
(***************************************************************************)
EXTENDS Integers, Sequences, FiniteSets, TLC

VARIABLES
    db,             \* the PostgreSQL store: existing tables and their rows
    session_state,  \* st.session_state: a mapping that starts empty
    now,            \* datetime.now() at minute resolution
    pc,             \* where the session's script run stands
    lastOp,         \* observation: the handler that ran last
    effects,        \* observation: the calls that handler made, in order
    slotTicks,      \* observation: tick handler runs in this clock minute (0, 1, more)
    slotRuns,       \* observation: run_price_check_job calls by those ticks (0, 1, more)
    changed,        \* observation: on_schedule_settings_change ran this minute
    startKey,       \* observation: last_run_key when this clock minute began
    retimed,        \* observation (SpecSlot): the check time was set to this clock minute
    reopened        \* observation (SpecSlot): the session before ran the job this minute

vars == <<db, session_state, now, pc, lastOp, effects,
          slotTicks, slotRuns, changed, startKey, retimed, reopened>>

(***************************************************************************)
(* Bounds                                                                  *)
(***************************************************************************)
MaxClock == 2
MaxTime == 1
MaxPrice == 1
MaxRows == 1

(***************************************************************************)
(* Values                                                                  *)
(***************************************************************************)
DefaultHour == 9
DefaultMinute == 0
NoPrice == 0

Prices == 1..MaxPrice

\* datetime.time as the time_input widget and the TIME column hold it
Time(h, m) == [hour |-> h, minute |-> m]

\* The times of day the model samples, in clock order: the first two minutes
\* of the hours from 09:00 on (09:00, 09:01, 10:00, 10:01, ...).  The operator
\* picks check times among them, so a tick at any other minute matches no
\* check time and does nothing.
TimeOfDay(i) == Time(DefaultHour + (i \div 2), DefaultMinute + (i % 2))
Times == {TimeOfDay(i) : i \in 0..MaxTime}

\* time(9, 0), True
DefaultSchedule == [check_time |-> Time(DefaultHour, DefaultMinute), is_enabled |-> TRUE]

\* Python None where a run key is expected
None == <<>>

\* st.session_state before main() has initialised it
EmptySession == [k \in {} |-> None]

\* st.session_state.get(key, default)
Get(state, key, default) == IF key \in DOMAIN state THEN state[key] ELSE default

\* Counting none, one, more than one
Count(n) == IF n < 2 THEN n + 1 ELSE n

(***************************************************************************)
(* Store                                                                   *)
(***************************************************************************)
NoTables == [tables |-> {}, schedule_settings |-> {}, price_history |-> <<>>]

\* Variant: the default insert written as an upsert (ON CONFLICT DO UPDATE)
InsertDefaultSchedule_overwrite(rows) ==
    {r \in rows : r.id # 1}
        \cup {[id |-> 1, check_time |-> [hour |-> DefaultHour, minute |-> DefaultMinute],
               is_enabled |-> TRUE]}

\* INSERT ... VALUES (1, '09:00:00', TRUE) ON CONFLICT (id) DO NOTHING
InsertDefaultSchedule(rows) ==
    IF \E r \in rows : r.id = 1
    THEN rows
    ELSE rows \cup {[id |-> 1, check_time |-> DefaultSchedule.check_time,
                     is_enabled |-> DefaultSchedule.is_enabled]}

\* One transaction: both CREATE TABLE IF NOT EXISTS, the default insert, the
\* commit.  A fault anywhere before the commit leaves the store as it was and
\* ends the script run with st.stop().
init_database(store, fault) ==
    IF fault
    THEN [db |-> store, stopped |-> TRUE]
    ELSE [db |-> [tables |-> store.tables \cup {"price_history", "schedule_settings"},
                  schedule_settings |-> InsertDefaultSchedule(store.schedule_settings),
                  price_history |-> store.price_history],
          stopped |-> FALSE]

\* Variant: the SET clause names check_time only
UpsertSchedule_time_only(rows, time_obj, enabled) ==
    IF \E r \in rows : r.id = 1
    THEN {IF r.id = 1 THEN [r EXCEPT !.check_time = time_obj] ELSE r : r \in rows}
    ELSE rows \cup {[id |-> 1, check_time |-> time_obj, is_enabled |-> enabled]}

\* Variant: a plain INSERT under the next free id
UpsertSchedule_insert(rows, time_obj, enabled) ==
    rows \cup {[id |-> Cardinality(rows) + 1, check_time |-> time_obj,
                is_enabled |-> enabled]}

\* INSERT ... VALUES (1, :check_time, :is_enabled)
\* ON CONFLICT (id) DO UPDATE SET check_time = ..., is_enabled = ...
UpsertSchedule(rows, time_obj, enabled) ==
    {r \in rows : r.id # 1}
        \cup {[id |-> 1, check_time |-> time_obj, is_enabled |-> enabled]}

\* Variant: the statement is committed before the fault shows
save_schedule_committed(store, time_obj, enabled, fault) ==
    IF "schedule_settings" \notin store.tables
    THEN [db |-> store, raised |-> FALSE, error |-> TRUE]
    ELSE [db |-> [store EXCEPT !.schedule_settings = UpsertSchedule(@, time_obj, enabled)],
          raised |-> FALSE, error |-> fault]

\* Returns None in every case; a fault (or a missing table) is caught, shown
\* with st.error and logged, and nothing is committed.
save_schedule(store, time_obj, enabled, fault) ==
    IF fault \/ "schedule_settings" \notin store.tables
    THEN [db |-> store, raised |-> FALSE, error |-> TRUE]
    ELSE [db |-> [store EXCEPT !.schedule_settings = UpsertSchedule(@, time_obj, enabled)],
          raised |-> FALSE, error |-> FALSE]

\* Variant: no except clause, a failed read propagates
load_schedule_unguarded(store, fault) ==
    IF fault \/ "schedule_settings" \notin store.tables
    THEN [check_time |-> DefaultSchedule.check_time,
          is_enabled |-> DefaultSchedule.is_enabled,
          raised |-> TRUE, error |-> TRUE, db |-> store]
    ELSE IF \E r \in store.schedule_settings : r.id = 1
         THEN LET schedule_setting == CHOOSE r \in store.schedule_settings : r.id = 1
              IN [check_time |-> schedule_setting.check_time,
                  is_enabled |-> schedule_setting.is_enabled,
                  raised |-> FALSE, error |-> FALSE, db |-> store]
         ELSE [check_time |-> DefaultSchedule.check_time,
               is_enabled |-> DefaultSchedule.is_enabled,
               raised |-> FALSE, error |-> FALSE, db |-> store]

\* SELECT check_time, is_enabled FROM schedule_settings WHERE id = 1 -> first()
load_schedule(store, fault) ==
    IF fault \/ "schedule_settings" \notin store.tables
    THEN [check_time |-> DefaultSchedule.check_time,
          is_enabled |-> DefaultSchedule.is_enabled,
          raised |-> FALSE, error |-> TRUE, db |-> store]
    ELSE IF \E r \in store.schedule_settings : r.id = 1
         THEN LET schedule_setting == CHOOSE r \in store.schedule_settings : r.id = 1
              IN [check_time |-> schedule_setting.check_time,
                  is_enabled |-> schedule_setting.is_enabled,
                  raised |-> FALSE, error |-> FALSE, db |-> store]
         ELSE [check_time |-> DefaultSchedule.check_time,
               is_enabled |-> DefaultSchedule.is_enabled,
               raised |-> FALSE, error |-> FALSE, db |-> store]

(***************************************************************************)
(* Price check job                                                         *)
(***************************************************************************)
\* created_at of the row inserted into a table of n rows at clock reading
\* clock: CURRENT_TIMESTAMP is finer than a minute and inserts are sequential
CurrentTimestamp(clock, n) == <<clock.date, clock.hour, clock.minute, n>>

\* pandas to_sql(..., if_exists="append"): one row, written whole or not at
\* all; the table is created when it is missing.  Returns True / False.
update_price_history(price, store, clock, fault) ==
    IF fault
    THEN [db |-> store, ok |-> FALSE]
    ELSE LET n == Len(store.price_history)
             new_entry == [id |-> n + 1,
                           Date |-> clock.date,
                           Time |-> Time(clock.hour, clock.minute),
                           Price |-> price,
                           created_at |-> CurrentTimestamp(clock, n)]
         IN [db |-> [store EXCEPT !.tables = @ \cup {"price_history"},
                                  !.price_history = Append(@, new_entry)],
             ok |-> TRUE]

\* requests.post to ntfy.sh; an exception is caught and shown with st.error
send_nfty_notification(price, fault) ==
    [call |-> "send_nfty_notification", price |-> price, ok |-> ~fault]

Toast(msg) == [call |-> "st.toast", msg |-> msg]

\* Variant: the notification is sent whatever update_price_history returned
run_price_check_job_notify_always(store, clock, price, appendFault, notifyFault) ==
    LET fetched == [call |-> "get_mattress_price", price |-> price, ok |-> price # NoPrice]
        updated == update_price_history(price, store, clock, appendFault)
        appended == [call |-> "update_price_history", price |-> price, ok |-> updated.ok]
    IN IF price = NoPrice
       THEN [db |-> store,
             effects |-> <<fetched, Toast("Failed to retrieve price.")>>]
       ELSE [db |-> updated.db,
             effects |-> <<fetched, appended,
                           send_nfty_notification(price, notifyFault),
                           Toast("Price updated. Notification sent!")>>]

\* Variant: the None check is missing, the fetched value is stored as it is
run_price_check_job_unchecked(store, clock, price, appendFault, notifyFault) ==
    LET fetched == [call |-> "get_mattress_price", price |-> price, ok |-> price # NoPrice]
        updated == update_price_history(price, store, clock, appendFault)
        appended == [call |-> "update_price_history", price |-> price, ok |-> updated.ok]
    IN IF updated.ok
       THEN [db |-> updated.db,
             effects |-> <<fetched, appended,
                           send_nfty_notification(price, notifyFault),
                           Toast("Price updated. Notification sent!")>>]
       ELSE [db |-> store,
             effects |-> <<fetched, appended, Toast("Failed to update database.")>>]

\* Variant: a failed notification takes the appended row back out
run_price_check_job_rollback(store, clock, price, appendFault, notifyFault) ==
    LET fetched == [call |-> "get_mattress_price", price |-> price, ok |-> price # NoPrice]
        updated == update_price_history(price, store, clock, appendFault)
        appended == [call |-> "update_price_history", price |-> price, ok |-> updated.ok]
    IN IF price = NoPrice
       THEN [db |-> store,
             effects |-> <<fetched, Toast("Failed to retrieve price.")>>]
       ELSE IF updated.ok
            THEN [db |-> IF notifyFault THEN store ELSE updated.db,
                  effects |-> <<fetched, appended,
                                send_nfty_notification(price, notifyFault),
                                Toast("Price updated. Notification sent!")>>]
            ELSE [db |-> store,
                  effects |-> <<fetched, appended, Toast("Failed to update database.")>>]

\* price is the result of get_mattress_price(): a price, or NoPrice for None
run_price_check_job(store, clock, price, appendFault, notifyFault) ==
    LET fetched == [call |-> "get_mattress_price", price |-> price, ok |-> price # NoPrice]
        updated == update_price_history(price, store, clock, appendFault)
        appended == [call |-> "update_price_history", price |-> price, ok |-> updated.ok]
    IN IF price = NoPrice
       THEN [db |-> store,
             effects |-> <<fetched, Toast("Failed to retrieve price.")>>]
       ELSE IF updated.ok
            THEN [db |-> updated.db,
                  effects |-> <<fetched, appended,
                                send_nfty_notification(price, notifyFault),
                                Toast("Price updated. Notification sent!")>>]
            ELSE [db |-> store,
                  effects |-> <<fetched, appended, Toast("Failed to update database.")>>]

(***************************************************************************)
(* Scheduler                                                               *)
(***************************************************************************)
\* st.session_state[key] = value
Put(state, key, value) ==
    [k \in DOMAIN state \cup {key} |-> IF k = key THEN value ELSE state[k]]

\* f"{now.date()}-{scheduled_time.strftime('%H:%M')}"
RunKey(clock, scheduled_time) == <<clock.date, scheduled_time.hour, scheduled_time.minute>>

\* now.hour == scheduled_time.hour and now.minute == scheduled_time.minute
TimeMatches(clock, scheduled_time) ==
    clock.hour = scheduled_time.hour /\ clock.minute = scheduled_time.minute

JobCall == [call |-> "run_price_check_job"]

\* Variant: last_run_key is not written after the job
scheduled_check_fragment_unmarked(state, store, clock, price, appendFault, notifyFault) ==
    IF ~Get(state, "schedule_enabled", TRUE)
    THEN [session_state |-> state, db |-> store, effects |-> <<>>, rerun |-> FALSE]
    ELSE LET scheduled_time == state.schedule_time
             run_key == RunKey(clock, scheduled_time)
             job == run_price_check_job(store, clock, price, appendFault, notifyFault)
         IN IF /\ TimeMatches(clock, scheduled_time)
               /\ Get(state, "last_run_key", None) # run_key
            THEN [session_state |-> state,
                  db |-> job.db,
                  effects |-> <<JobCall>> \o job.effects,
                  rerun |-> TRUE]
            ELSE [session_state |-> state, db |-> store, effects |-> <<>>, rerun |-> FALSE]

\* Variant: the guard asks whether any run key is set, not whether it differs
scheduled_check_fragment_once(state, store, clock, price, appendFault, notifyFault) ==
    IF ~Get(state, "schedule_enabled", TRUE)
    THEN [session_state |-> state, db |-> store, effects |-> <<>>, rerun |-> FALSE]
    ELSE LET scheduled_time == state.schedule_time
             run_key == RunKey(clock, scheduled_time)
             job == run_price_check_job(store, clock, price, appendFault, notifyFault)
         IN IF /\ TimeMatches(clock, scheduled_time)
               /\ Get(state, "last_run_key", None) = None
            THEN [session_state |-> Put(state, "last_run_key", run_key),
                  db |-> job.db,
                  effects |-> <<JobCall>> \o job.effects,
                  rerun |-> TRUE]
            ELSE [session_state |-> state, db |-> store, effects |-> <<>>, rerun |-> FALSE]

\* Variant: the early return on a disabled schedule is missing
scheduled_check_fragment_unconditional(state, store, clock, price, appendFault, notifyFault) ==
    LET scheduled_time == state.schedule_time
        run_key == RunKey(clock, scheduled_time)
        job == run_price_check_job(store, clock, price, appendFault, notifyFault)
    IN IF /\ TimeMatches(clock, scheduled_time)
          /\ Get(state, "last_run_key", None) # run_key
       THEN [session_state |-> Put(state, "last_run_key", run_key),
             db |-> job.db,
             effects |-> <<JobCall>> \o job.effects,
             rerun |-> TRUE]
       ELSE [session_state |-> state, db |-> store, effects |-> <<>>, rerun |-> FALSE]

\* Variant: last_run_key is written only after a job that stored a price
scheduled_check_fragment_mark_stored(state, store, clock, price, appendFault, notifyFault) ==
    IF ~Get(state, "schedule_enabled", TRUE)
    THEN [session_state |-> state, db |-> store, effects |-> <<>>, rerun |-> FALSE]
    ELSE LET scheduled_time == state.schedule_time
             run_key == RunKey(clock, scheduled_time)
             job == run_price_check_job(store, clock, price, appendFault, notifyFault)
         IN IF /\ TimeMatches(clock, scheduled_time)
               /\ Get(state, "last_run_key", None) # run_key
            THEN [session_state |-> IF job.db # store
                                    THEN Put(state, "last_run_key", run_key)
                                    ELSE state,
                  db |-> job.db,
                  effects |-> <<JobCall>> \o job.effects,
                  rerun |-> TRUE]
            ELSE [session_state |-> state, db |-> store, effects |-> <<>>, rerun |-> FALSE]

\* The body of the fragment.  rerun is st.rerun().
scheduled_check_fragment(state, store, clock, price, appendFault, notifyFault) ==
    IF ~Get(state, "schedule_enabled", TRUE)
    THEN [session_state |-> state, db |-> store, effects |-> <<>>, rerun |-> FALSE]
    ELSE LET scheduled_time == state.schedule_time
             run_key == RunKey(clock, scheduled_time)
             job == run_price_check_job(store, clock, price, appendFault, notifyFault)
         IN IF /\ TimeMatches(clock, scheduled_time)
               /\ Get(state, "last_run_key", None) # run_key
            THEN [session_state |-> Put(state, "last_run_key", run_key),
                  db |-> job.db,
                  effects |-> <<JobCall>> \o job.effects,
                  rerun |-> TRUE]
            ELSE [session_state |-> state, db |-> store, effects |-> <<>>, rerun |-> FALSE]

\* Variant: a change of the check time clears last_run_key
on_schedule_settings_change_rearm(state, store, new_time, new_enabled_status, fault) ==
    LET saved == save_schedule(store, new_time, new_enabled_status, fault)
        marked == IF new_time # state.schedule_time
                  THEN Put(state, "last_run_key", None)
                  ELSE state
    IN [session_state |-> Put(Put(marked, "schedule_time", new_time),
                              "schedule_enabled", new_enabled_status),
        db |-> saved.db,
        effects |-> <<[call |-> "save_schedule", check_time |-> new_time,
                       is_enabled |-> new_enabled_status, raised |-> saved.raised,
                       error |-> saved.error],
                      Toast("Schedule settings saved!")>>]

\* on_schedule_settings_change: session state first, then the save
on_schedule_settings_change(state, store, new_time, new_enabled_status, fault) ==
    LET saved == save_schedule(store, new_time, new_enabled_status, fault)
    IN [session_state |-> Put(Put(state, "schedule_time", new_time),
                              "schedule_enabled", new_enabled_status),
        db |-> saved.db,
        effects |-> <<[call |-> "save_schedule", check_time |-> new_time,
                       is_enabled |-> new_enabled_status, raised |-> saved.raised,
                       error |-> saved.error],
                      Toast("Schedule settings saved!")>>]

\* ORDER BY created_at: lexicographic order of timestamps
TimestampLess(a, b) ==
    \E i \in 1..4 : a[i] < b[i] /\ \A j \in 1..(i - 1) : a[j] = b[j]

\* Variant: ORDER BY created_at ASC, the oldest row comes first
LastPriceRows_oldest(store) ==
    {i \in 1..Len(store.price_history) :
        \A j \in 1..Len(store.price_history) :
            ~TimestampLess(store.price_history[j].created_at,
                           store.price_history[i].created_at)}

\* SELECT "Price" FROM price_history ORDER BY created_at DESC LIMIT 1
LastPriceRows(store) ==
    {i \in 1..Len(store.price_history) :
        \A j \in 1..Len(store.price_history) :
            ~TimestampLess(store.price_history[i].created_at,
                           store.price_history[j].created_at)}

\* "Sunday 15 June 2025 at 02:30 PM BST": the day and the minute of
\* created_at; what is finer than a minute is not printed
FormatTimestamp(created_at) == <<created_at[1], created_at[2], created_at[3]>>

\* get_latest_price(engine): the price and created_at of the first row of the
\* query above, or an {"error": ...} object; it catches what the read raises
get_latest_price(store, fault) ==
    IF fault
    THEN [error |-> "Failed to retrieve latest price from the database."]
    ELSE IF Len(store.price_history) = 0
         THEN [error |-> "No price history found"]
         ELSE LET i == CHOOSE i \in LastPriceRows(store) : TRUE
              IN [latestPrice |-> store.price_history[i].Price,
                  timestamp |-> FormatTimestamp(store.price_history[i].created_at)]

(***************************************************************************)
(* main() up to its last statement                                         *)
(***************************************************************************)
\* Variant: last_run_key is recovered from the newest price row
session_init_recovering(state, store, fault) ==
    IF "schedule_time" \notin DOMAIN state
    THEN LET loaded == load_schedule(store, fault)
             n == Len(store.price_history)
             key == IF n > 0
                    THEN <<store.price_history[n].Date, store.price_history[n].Time.hour,
                           store.price_history[n].Time.minute>>
                    ELSE None
         IN [session_state |-> Put(Put(Put(state, "schedule_time", loaded.check_time),
                                       "schedule_enabled", loaded.is_enabled),
                                   "last_run_key", key),
             effects |-> <<[call |-> "load_schedule", check_time |-> loaded.check_time,
                            is_enabled |-> loaded.is_enabled, raised |-> loaded.raised,
                            error |-> loaded.error]>>]
    ELSE [session_state |-> state, effects |-> <<>>]

\* if "schedule_time" not in st.session_state: ...
session_init(state, store, fault) ==
    IF "schedule_time" \notin DOMAIN state
    THEN LET loaded == load_schedule(store, fault)
         IN [session_state |-> Put(Put(Put(state, "schedule_time", loaded.check_time),
                                       "schedule_enabled", loaded.is_enabled),
                                   "last_run_key", None),
             effects |-> <<[call |-> "load_schedule", check_time |-> loaded.check_time,
                            is_enabled |-> loaded.is_enabled, raised |-> loaded.raised,
                            error |-> loaded.error]>>]
    ELSE [session_state |-> state, effects |-> <<>>]

\* if st.button("Send Notification Now"): ...
send_notification_now(store, readFault, notifyFault) ==
    IF readFault
    THEN <<[call |-> "st.sidebar.error"]>>
    ELSE IF Len(store.price_history) = 0
         THEN <<[call |-> "st.sidebar.warning"]>>
         ELSE LET i == CHOOSE i \in LastPriceRows(store) : TRUE
              IN <<send_nfty_notification(store.price_history[i].Price, notifyFault),
                   [call |-> "st.sidebar.success"]>>

\* if st.button("Check Price Now", type="primary"): ...
check_price_now(store, clock, price, appendFault) ==
    LET fetched == [call |-> "get_mattress_price", price |-> price, ok |-> price # NoPrice]
        updated == update_price_history(price, store, clock, appendFault)
    IN IF price # NoPrice
       THEN [db |-> updated.db,
             effects |-> <<fetched, [call |-> "update_price_history",
                                     price |-> price, ok |-> updated.ok]>>,
             rerun |-> TRUE]
       ELSE [db |-> store, effects |-> <<fetched, [call |-> "st.error"]>>, rerun |-> FALSE]

Buttons == {"none", "Send Notification Now", "Check Price Now"}

\* main() from init_database to the price history table.  next is where the
\* script run goes: st.stop(), st.rerun(), or on to scheduled_check_fragment.
main(state, store, clock, pressed, in) ==
    LET init == init_database(store, in.initFault)
        session == session_init(state, init.db, in.loadFault)
        started == <<[call |-> "init_database", stopped |-> init.stopped]>>
        notified == send_notification_now(init.db, in.readFault, in.notifyFault)
        checked == check_price_now(init.db, clock, in.price, in.appendFault)
    IN IF init.stopped
       THEN [session_state |-> state, db |-> init.db, effects |-> started,
             next |-> "stopped"]
       ELSE IF pressed = "Send Notification Now"
            THEN [session_state |-> session.session_state, db |-> init.db,
                  effects |-> started \o session.effects \o notified,
                  next |-> "fragment"]
            ELSE IF pressed = "Check Price Now"
                 THEN [session_state |-> session.session_state, db |-> checked.db,
                       effects |-> started \o session.effects \o checked.effects,
                       next |-> IF checked.rerun THEN "rerun" ELSE "fragment"]
                 ELSE [session_state |-> session.session_state, db |-> init.db,
                       effects |-> started \o session.effects,
                       next |-> "fragment"]

(***************************************************************************)
(* Inputs: faults and fetch results, drawn only where the run reads them   *)
(***************************************************************************)
\* A store that already holds MaxRows rows takes no further row: there the
\* fetch or the append fails.
Full(store) == Len(store.price_history) >= MaxRows

JobInputs(store) ==
    {in \in [price : Prices \cup {NoPrice}, appendFault : BOOLEAN, notifyFault : BOOLEAN] :
        /\ Full(store) => (in.price = NoPrice \/ in.appendFault)
        /\ in.price = NoPrice => ~in.appendFault /\ ~in.notifyFault
        /\ in.appendFault => ~in.notifyFault}

\* A tick that does not reach the job reads no input
TickInputs(state, store, clock) ==
    {in \in JobInputs(store) :
        ~scheduled_check_fragment(state, store, clock, NoPrice, FALSE, FALSE).rerun =>
            in.price = NoPrice}

MainInputs(state, store, pressed) ==
    LET loads == IF "schedule_time" \notin DOMAIN state THEN BOOLEAN ELSE {FALSE}
        sends == IF pressed = "Send Notification Now" THEN BOOLEAN ELSE {FALSE}
        posts == IF pressed = "Send Notification Now" /\ Len(store.price_history) > 0
                 THEN BOOLEAN ELSE {FALSE}
        fetches == IF pressed = "Check Price Now" THEN Prices \cup {NoPrice} ELSE {NoPrice}
        writes == IF pressed = "Check Price Now" THEN BOOLEAN ELSE {FALSE}
        run == {[initFault |-> FALSE, loadFault |-> l, readFault |-> r, notifyFault |-> n,
                 price |-> p, appendFault |-> a] :
                   l \in loads, r \in sends, n \in posts, p \in fetches, a \in writes}
    IN {[initFault |-> TRUE, loadFault |-> FALSE, readFault |-> FALSE,
         notifyFault |-> FALSE, price |-> NoPrice, appendFault |-> FALSE]}
       \cup {in \in run :
               /\ in.notifyFault => ~in.readFault
               /\ in.appendFault => in.price # NoPrice
               /\ Full(store) => (in.price = NoPrice \/ in.appendFault)}

(***************************************************************************)
(* The session: script runs, callbacks and the fragment timer              *)
(***************************************************************************)
Observe(op, calls) == lastOp' = op /\ effects' = calls

SameMinute == UNCHANGED <<now, slotTicks, slotRuns, changed, startKey, retimed, reopened>>

Init ==
    /\ db = NoTables
    /\ session_state = EmptySession
    /\ now = [date |-> 1, hour |-> DefaultHour, minute |-> DefaultMinute]
    /\ pc = "closed"
    /\ lastOp = "start"
    /\ effects = <<>>
    /\ slotTicks = 0
    /\ slotRuns = 0
    /\ changed = FALSE
    /\ startKey = None
    /\ retimed = "no"
    /\ reopened = FALSE

\* One script run of main() with the given button pressed, after the calls a
\* callback has made.  A run that init_database stops reaches no handler.
ScriptRun(op, state, store, calls, pressed) ==
    \E in \in MainInputs(state, store, pressed) :
        LET r == main(state, store, now, pressed, in)
        IN /\ session_state' = r.session_state
           /\ db' = r.db
           /\ pc' = r.next
           /\ Observe(IF r.next = "stopped" /\ calls = <<>> THEN "init_database" ELSE op,
                      calls \o r.effects)

\* A browser (re)load or a process restart: a fresh st.session_state
OpenSessionStep ==
    /\ pc \in {"closed", "idle", "stopped"}
    /\ ScriptRun("open_session", EmptySession, db, <<>>, "none")
    /\ slotTicks' = 0
    /\ slotRuns' = 0
    /\ changed' = FALSE
    /\ startKey' = None
    /\ now' = now

OpenSession ==
    /\ OpenSessionStep
    /\ UNCHANGED <<retimed, reopened>>

\* st.rerun(), or the operator asking for a rerun
Rerun ==
    /\ pc \in {"rerun", "idle", "stopped"}
    /\ ScriptRun("rerun", session_state, db, <<>>, "none")
    /\ SameMinute

ClickSendNotificationNow ==
    /\ pc = "idle"
    /\ ScriptRun("Send Notification Now", session_state, db, <<>>, "Send Notification Now")
    /\ SameMinute

ClickCheckPriceNow ==
    /\ pc = "idle"
    /\ ScriptRun("Check Price Now", session_state, db, <<>>, "Check Price Now")
    /\ SameMinute

\* The operator flips the toggle, or edits the time input (which is disabled
\* while the schedule is off); the callback reads both widgets, then the
\* script reruns.
ChangeSettingsTo(new_time, new_enabled_status, fault) ==
    /\ pc = "idle"
    /\ \/ /\ new_time = session_state.schedule_time
          /\ new_enabled_status # session_state.schedule_enabled
       \/ /\ session_state.schedule_enabled
          /\ new_enabled_status = session_state.schedule_enabled
          /\ new_time # session_state.schedule_time
    /\ LET r == on_schedule_settings_change(session_state, db, new_time,
                                            new_enabled_status, fault)
       IN ScriptRun("on_schedule_settings_change", r.session_state, r.db,
                    r.effects, "none")
    /\ changed' = TRUE
    /\ UNCHANGED <<now, slotTicks, slotRuns, startKey>>

ChangeSettings ==
    /\ \E new_time \in Times, new_enabled_status \in BOOLEAN, fault \in BOOLEAN :
        ChangeSettingsTo(new_time, new_enabled_status, fault)
    /\ UNCHANGED <<retimed, reopened>>

\* One run of scheduled_check_fragment; st.rerun() restarts the script
TickHandler ==
    \E in \in TickInputs(session_state, db, now) :
        LET r == scheduled_check_fragment(session_state, db, now, in.price,
                                          in.appendFault, in.notifyFault)
        IN /\ session_state' = r.session_state
           /\ db' = r.db
           /\ pc' = IF r.rerun THEN "rerun" ELSE "idle"
           /\ Observe("scheduled_check_fragment", r.effects)
           /\ slotTicks' = Count(slotTicks)
           /\ slotRuns' = IF r.rerun THEN Count(slotRuns) ELSE slotRuns
           /\ UNCHANGED <<now, changed, startKey, retimed, reopened>>

\* main(): scheduled_check_fragment(engine), the last statement of the script
MainFragment ==
    /\ pc = "fragment"
    /\ TickHandler

\* @st.fragment(run_every="10s"): the timer runs the fragment alone
Tick ==
    /\ pc = "idle"
    /\ TickHandler

\* Place of a clock reading among the sampled times of its day
TimeIndex(clock) == CHOOSE i \in 0..MaxTime : TimeOfDay(i) = Time(clock.hour, clock.minute)

\* Sampled minutes the clock has passed since the first one of day 1
Elapsed(clock) == (clock.date - 1) * (MaxTime + 1) + TimeIndex(clock)

\* The wall clock reaches the next sampled minute, today or tomorrow
NextMinute(clock) ==
    LET i == TimeIndex(clock)
        next == TimeOfDay(IF i < MaxTime THEN i + 1 ELSE 0)
    IN [date |-> IF i < MaxTime THEN clock.date ELSE clock.date + 1,
        hour |-> next.hour, minute |-> next.minute]

AdvanceClockStep ==
    /\ Elapsed(now) < MaxClock
    /\ now' = NextMinute(now)
    /\ Observe("clock", <<>>)
    /\ slotTicks' = 0
    /\ slotRuns' = 0
    /\ changed' = FALSE
    /\ startKey' = Get(session_state, "last_run_key", None)
    /\ UNCHANGED <<db, session_state, pc>>

AdvanceClock ==
    /\ AdvanceClockStep
    /\ UNCHANGED <<retimed, reopened>>

Next ==
    \/ OpenSession
    \/ Rerun
    \/ ClickSendNotificationNow
    \/ ClickCheckPriceNow
    \/ ChangeSettings
    \/ MainFragment
    \/ Tick
    \/ AdvanceClock

Spec == Init /\ [][Next]_vars

(***************************************************************************)
(* The scheduler of one deployment: sessions, settings changes, ticks and  *)
(* the clock, with what happened to the current slot written down          *)
(***************************************************************************)
\* A new session; reopened says whether the session it replaces had run the
\* job in this clock minute
SlotOpenSession ==
    /\ OpenSessionStep
    /\ retimed' = "no"
    /\ reopened' = (slotRuns >= 1)

\* retimed says whether a change set the check time to the current clock
\* minute, and whether the job had by then run in this minute ("again") or
\* not ("fresh")
SlotChangeSettings ==
    /\ \E new_time \in Times, new_enabled_status \in BOOLEAN, fault \in BOOLEAN :
        /\ ChangeSettingsTo(new_time, new_enabled_status, fault)
        /\ retimed' = IF new_time # session_state.schedule_time /\ TimeMatches(now, new_time)
                      THEN (IF slotRuns >= 1 THEN "again" ELSE "fresh")
                      ELSE retimed
    /\ UNCHANGED reopened

SlotAdvanceClock ==
    /\ AdvanceClockStep
    /\ retimed' = "no"
    /\ reopened' = FALSE

SlotNext ==
    \/ SlotOpenSession
    \/ Rerun
    \/ SlotChangeSettings
    \/ MainFragment
    \/ Tick
    \/ SlotAdvanceClock

SpecSlot == Init /\ [][SlotNext]_vars

(***************************************************************************)
(* The schedule store on its own: init_database, save_schedule and         *)
(* load_schedule called in any order, with faults                          *)
(***************************************************************************)
FirstClock == [date |-> 1, hour |-> DefaultHour, minute |-> DefaultMinute]

ScheduleRows == {[id |-> 1, check_time |-> t, is_enabled |-> e] : t \in Times, e \in BOOLEAN}

\* The stores a call may find: no tables yet, or both tables, with no
\* schedule record (the case load_schedule logs as "No schedule found") or
\* the one record, and with or without price rows.
Stores ==
    {NoTables} \cup
    {[tables |-> {"price_history", "schedule_settings"},
      schedule_settings |-> rows,
      price_history |-> history] :
        rows \in {{}} \cup {{r} : r \in ScheduleRows},
        history \in {<<>>} \cup
            {update_price_history(p, NoTables, FirstClock, FALSE).db.price_history :
                p \in Prices}}

StoreInit ==
    /\ db \in Stores
    /\ session_state = EmptySession
    /\ now = FirstClock
    /\ pc = "closed"
    /\ lastOp = "start"
    /\ effects = <<>>
    /\ slotTicks = 0
    /\ slotRuns = 0
    /\ changed = FALSE
    /\ startKey = None
    /\ retimed = "no"
    /\ reopened = FALSE

StoreFrame ==
    UNCHANGED <<session_state, now, slotTicks, slotRuns, changed, startKey, retimed, reopened>>

\* pc = "ready" from the first init_database that succeeds
CallInitDatabase ==
    /\ \E fault \in BOOLEAN :
        LET r == init_database(db, fault)
        IN /\ db' = r.db
           /\ pc' = IF r.stopped THEN pc ELSE "ready"
           /\ Observe("init_database", <<[call |-> "init_database", stopped |-> r.stopped]>>)
    /\ StoreFrame

CallSaveSchedule ==
    /\ \E time_obj \in Times, enabled \in BOOLEAN, fault \in BOOLEAN :
        LET r == save_schedule(db, time_obj, enabled, fault)
        IN /\ db' = r.db
           /\ Observe("save_schedule",
                      <<[call |-> "save_schedule", check_time |-> time_obj,
                         is_enabled |-> enabled, raised |-> r.raised, error |-> r.error,
                         before |-> db.schedule_settings]>>)
    /\ UNCHANGED pc
    /\ StoreFrame

CallLoadSchedule ==
    /\ \E fault \in BOOLEAN :
        LET r == load_schedule(db, fault)
        IN /\ db' = r.db
           /\ Observe("load_schedule",
                      <<[call |-> "load_schedule", check_time |-> r.check_time,
                         is_enabled |-> r.is_enabled, raised |-> r.raised,
                         error |-> r.error]>>)
    /\ UNCHANGED pc
    /\ StoreFrame

StoreNext ==
    \/ CallInitDatabase
    \/ CallSaveSchedule
    \/ CallLoadSchedule

SpecStore == StoreInit /\ [][StoreNext]_vars

(***************************************************************************)
(* The price history on its own: rows appended at successive clock         *)
(* readings, and the two reads of the latest price                         *)
(***************************************************************************)
MaxHistory == 3
MaxHistoryPrice == 2

HistoryPrices == 1..MaxHistoryPrice

HistoryInit ==
    /\ db = init_database(NoTables, FALSE).db
    /\ session_state = EmptySession
    /\ now = FirstClock
    /\ pc = "closed"
    /\ lastOp = "start"
    /\ effects = <<>>
    /\ slotTicks = 0
    /\ slotRuns = 0
    /\ changed = FALSE
    /\ startKey = None
    /\ retimed = "no"
    /\ reopened = FALSE

HistoryFrame ==
    UNCHANGED <<session_state, pc, slotTicks, slotRuns, changed, startKey, retimed, reopened>>

CallUpdatePriceHistory ==
    /\ Len(db.price_history) < MaxHistory
    /\ \E price \in HistoryPrices, fault \in BOOLEAN :
        LET r == update_price_history(price, db, now, fault)
        IN /\ db' = r.db
           /\ Observe("update_price_history",
                      <<[call |-> "update_price_history", price |-> price, ok |-> r.ok]>>)
    /\ UNCHANGED now
    /\ HistoryFrame

CallGetLatestPrice ==
    /\ \E fault \in BOOLEAN :
        Observe("get_latest_price",
                <<[call |-> "get_latest_price", fault |-> fault,
                   result |-> get_latest_price(db, fault)]>>)
    /\ UNCHANGED <<db, now>>
    /\ HistoryFrame

CallSendNotificationNow ==
    /\ \E readFault \in BOOLEAN :
        Observe("send_notification_now", send_notification_now(db, readFault, FALSE))
    /\ UNCHANGED <<db, now>>
    /\ HistoryFrame

HistoryClock ==
    /\ Elapsed(now) < MaxClock
    /\ now' = NextMinute(now)
    /\ Observe("clock", <<>>)
    /\ UNCHANGED db
    /\ HistoryFrame

HistoryNext ==
    \/ CallUpdatePriceHistory
    \/ CallGetLatestPrice
    \/ CallSendNotificationNow
    \/ HistoryClock

SpecHistory == HistoryInit /\ [][HistoryNext]_vars

(***************************************************************************)
(* Properties                                                              *)
(***************************************************************************)
Ready == "schedule_time" \in DOMAIN session_state

\* The clock minute is the scheduled one, the schedule is on, and no settings
\* change has happened in this minute of this session
InUnchangedSlot ==
    /\ Ready
    /\ session_state.schedule_enabled
    /\ ~changed
    /\ TimeMatches(now, session_state.schedule_time)

Called(calls, name) == {i \in 1..Len(calls) : calls[i].call = name}

JobRan == lastOp = "scheduled_check_fragment" /\ Called(effects, "run_price_check_job") # {}

\* C1: with the schedule enabled and unchanged, however many times the tick
\* handler has run in the matching minute of one date, run_price_check_job has
\* been invoked exactly once in that minute: by the first of those ticks.
C1_OncePerMatchingMinute ==
    (InUnchangedSlot /\ slotTicks >= 1) => slotRuns = 1

C1_Witness ==
    /\ InUnchangedSlot
    /\ slotTicks >= 2
    /\ slotRuns = 1
    /\ session_state.last_run_key = RunKey(now, session_state.schedule_time)

\* C2: once last_run_key holds a slot S, the ticks of a later matching slot S'
\* invoke the job again exactly once, and last_run_key moves from S to S'.
C2_Rearm ==
    (InUnchangedSlot /\ startKey # None /\ slotTicks >= 1) =>
        /\ slotRuns = 1
        /\ session_state.last_run_key = RunKey(now, session_state.schedule_time)
        /\ session_state.last_run_key # startKey

C2_Witness ==
    /\ InUnchangedSlot
    /\ startKey # None
    /\ startKey[1] < now.date
    /\ slotTicks >= 2
    /\ slotRuns = 1

\* C3: a tick handled while schedule_enabled is false invokes nothing, leaves
\* last_run_key as it was and leaves the store as it was.
C3_DisabledTicksDoNothing ==
    [][(lastOp' = "scheduled_check_fragment" /\ ~Get(session_state, "schedule_enabled", TRUE)) =>
          /\ effects' = <<>>
          /\ session_state' = session_state
          /\ db' = db]_vars

C3_Witness ==
    /\ Ready
    /\ ~session_state.schedule_enabled
    /\ TimeMatches(now, session_state.schedule_time)
    /\ lastOp = "scheduled_check_fragment"
    /\ slotTicks >= 2
    /\ slotRuns = 0

\* C4: in a run of run_price_check_job every notify call comes after a
\* successful update_price_history of the same price, which comes after the
\* fetch of that price; a run whose append failed holds no notify call.
C4_FetchAppendNotify ==
    JobRan =>
        /\ \A i \in Called(effects, "send_nfty_notification") :
              \E j \in Called(effects, "update_price_history") :
                  /\ j < i
                  /\ effects[j].ok
                  /\ effects[j].price = effects[i].price
                  /\ \E k \in Called(effects, "get_mattress_price") :
                        k < j /\ effects[k].price = effects[i].price
        /\ (\E j \in Called(effects, "update_price_history") : ~effects[j].ok) =>
              Called(effects, "send_nfty_notification") = {}

C4_Witness ==
    /\ JobRan
    /\ Len(effects) = 5
    /\ effects[2].call = "get_mattress_price"
    /\ effects[3].call = "update_price_history" /\ effects[3].ok
    /\ effects[4].call = "send_nfty_notification"

\* C5: a job run whose fetch returned None appends nothing and notifies
\* nobody: the price history is the one from before the run and the only
\* report is the failure toast.
C5_NoWriteOnFetchFailure ==
    [][(/\ lastOp' = "scheduled_check_fragment"
        /\ \E k \in Called(effects', "get_mattress_price") : ~effects'[k].ok) =>
          /\ db'.price_history = db.price_history
          /\ Called(effects', "update_price_history") = {}
          /\ Called(effects', "send_nfty_notification") = {}
          /\ effects'[Len(effects')] = Toast("Failed to retrieve price.")]_vars

C5_Witness ==
    /\ JobRan
    /\ effects = <<JobCall,
                   [call |-> "get_mattress_price", price |-> NoPrice, ok |-> FALSE],
                   Toast("Failed to retrieve price.")>>
    /\ Len(db.price_history) > 0

\* C6: every observation a manual "Check Price Now" appends is followed by a
\* notify call for that price, as in run_price_check_job.
C6_ManualCheckNotifies ==
    lastOp = "Check Price Now" =>
        \A i \in Called(effects, "update_price_history") :
            effects[i].ok =>
                \E j \in Called(effects, "send_nfty_notification") :
                    j > i /\ effects[j].price = effects[i].price

HasRecord(store) == \E r \in store.schedule_settings : r.id = 1

\* (check_time, is_enabled) as a load without a fault returns it
Loaded(store) ==
    <<load_schedule(store, FALSE).check_time, load_schedule(store, FALSE).is_enabled>>

Saved == lastOp = "save_schedule" /\ ~effects[1].error

\* C7: after a save_schedule(t, e) that succeeded, load_schedule returns
\* exactly (t, e), whatever pair the store held before.
C7_SaveThenLoad ==
    Saved => Loaded(db) = <<effects[1].check_time, effects[1].is_enabled>>

C7_Witness ==
    /\ Saved
    /\ \E r \in effects[1].before :
          /\ r.check_time # effects[1].check_time
          /\ r.is_enabled # effects[1].is_enabled
    /\ Loaded(db) = <<effects[1].check_time, effects[1].is_enabled>>

\* C8: load_schedule never raises; with no schedule record, and with a failed
\* read, it returns (09:00, True); it leaves the store unchanged.
C8_LoadDefaults ==
    [][lastOp' = "load_schedule" =>
          /\ ~effects'[1].raised
          /\ db' = db
          /\ (effects'[1].error \/ ~HasRecord(db)) =>
                /\ effects'[1].check_time = [hour |-> 9, minute |-> 0]
                /\ effects'[1].is_enabled = TRUE]_vars

C8_Witness ==
    /\ lastOp = "load_schedule"
    /\ effects[1].error
    /\ ~effects[1].raised
    /\ HasRecord(db)
    /\ Loaded(db) # <<effects[1].check_time, effects[1].is_enabled>>

\* C9: once init_database has succeeded, the schedule table holds exactly one
\* record, the one with id 1, after any calls of init_database, save_schedule
\* and load_schedule.
C9_Singleton ==
    pc = "ready" =>
        /\ Cardinality(db.schedule_settings) = 1
        /\ \A r \in db.schedule_settings : r.id = 1

C9_Witness ==
    /\ pc = "ready"
    /\ Saved
    /\ effects[1].before # {}
    /\ effects[1].before # db.schedule_settings
    /\ Cardinality(db.schedule_settings) = 1

\* C10: an init_database that succeeds keeps every price row and every
\* schedule record the store held, so load_schedule returns the saved
\* schedule afterwards, and a further init_database would change nothing.
C10_InitKeepsData ==
    [][(lastOp' = "init_database" /\ ~effects'[1].stopped) =>
          /\ db'.price_history = db.price_history
          /\ db.schedule_settings \subseteq db'.schedule_settings
          /\ HasRecord(db) => Loaded(db') = Loaded(db)
          /\ init_database(db', FALSE).db = db']_vars

C10_Witness ==
    /\ lastOp = "init_database"
    /\ ~effects[1].stopped
    /\ Len(db.price_history) > 0
    /\ HasRecord(db)
    /\ Loaded(db) # <<DefaultSchedule.check_time, DefaultSchedule.is_enabled>>

\* The observation appended last
LastAppended == db.price_history[Len(db.price_history)]

CurrentSlot == <<now.date, now.hour, now.minute>>

\* C13: in one session, whatever ticks, check-time changes and toggles have
\* happened in a clock minute (the time set away and back included), the
\* tick handler has invoked the job at most once for the slot of that
\* minute, and every job it invokes is for that slot.
C13_AtMostOncePerSlot ==
    /\ slotRuns <= 1
    /\ JobRan => session_state.last_run_key = CurrentSlot
    /\ slotRuns = 1 => session_state.last_run_key = CurrentSlot

C13_Witness ==
    /\ retimed = "again"
    /\ session_state.schedule_enabled
    /\ TimeMatches(now, session_state.schedule_time)
    /\ lastOp = "scheduled_check_fragment"
    /\ effects = <<>>
    /\ slotRuns = 1

\* C14: a tick that invokes the job leaves last_run_key at the slot's run key
\* whatever the job did (no price fetched, append failed, notification
\* failed, or all well), and a tick that finds last_run_key at the run key
\* of its minute invokes nothing and writes nothing: a failed job is not
\* tried again in its slot.
C14_MarkedWhateverTheJobDid ==
    [][lastOp' = "scheduled_check_fragment" =>
          LET run_key == RunKey(now, session_state.schedule_time)
          IN /\ Called(effects', "run_price_check_job") # {} =>
                   /\ session_state'.last_run_key = run_key
                   /\ TimeMatches(now, session_state.schedule_time)
             /\ Get(session_state, "last_run_key", None) = run_key =>
                   /\ effects' = <<>>
                   /\ db' = db
                   /\ session_state' = session_state]_vars

C14_Witness ==
    /\ InUnchangedSlot
    /\ lastOp = "scheduled_check_fragment"
    /\ effects = <<>>
    /\ slotRuns = 1
    /\ slotTicks >= 2
    /\ Len(db.price_history) = 0
    /\ session_state.last_run_key = CurrentSlot

\* A settings change that sets the check time to the current clock minute
\* and leaves the schedule on (the time input is editable only while it is on)
RetimedToNow ==
    /\ lastOp' = "on_schedule_settings_change"
    /\ session_state'.schedule_time # session_state.schedule_time
    /\ session_state'.schedule_enabled
    /\ TimeMatches(now, session_state'.schedule_time)

\* A tick handled with the schedule on, in the minute of the check time, with
\* last_run_key different from the run key
DueTick ==
    /\ lastOp' = "scheduled_check_fragment"
    /\ session_state.schedule_enabled
    /\ TimeMatches(now, session_state.schedule_time)
    /\ session_state.last_run_key # RunKey(now, session_state.schedule_time)

\* C15, as the claim states it: whenever the check time is changed to the
\* current clock minute with the schedule on, the new run key differs from
\* last_run_key, so that the next tick of the minute invokes the job.
C15_RetimedAlwaysFires ==
    [][/\ RetimedToNow =>
             session_state'.last_run_key # RunKey(now, session_state'.schedule_time)
       /\ DueTick => Called(effects', "run_price_check_job") # {}]_vars

\* C15: when the check time is changed to the current clock minute with the
\* schedule on, last_run_key stays what it was; the new run key differs from
\* it exactly when this session has not yet run the job in this minute, and
\* then the next tick of the minute invokes the job, also when last_run_key
\* holds a slot of earlier that day.  When the job has already run in this
\* minute (the time was changed away and back) the run key equals
\* last_run_key and no tick of the minute invokes the job again.
C15_RetimedFiresUnlessRun ==
    [][/\ RetimedToNow =>
             /\ session_state'.last_run_key = session_state.last_run_key
             /\ (session_state'.last_run_key = RunKey(now, session_state'.schedule_time))
                    <=> (slotRuns >= 1)
       /\ DueTick => Called(effects', "run_price_check_job") # {}
       /\ (lastOp' = "scheduled_check_fragment" /\ retimed = "again") =>
             Called(effects', "run_price_check_job") = {}]_vars

C15_Witness ==
    /\ retimed = "fresh"
    /\ JobRan
    /\ slotRuns = 1
    /\ startKey # None
    /\ startKey[1] = now.date
    /\ session_state.last_run_key = CurrentSlot

\* C16: a settings change whose save_schedule failed reports the failure
\* (st.error) and raises nothing, so the script run follows; the schedule
\* record is the one from before the change; and the session holds what it
\* held when save_schedule was called: the new time and flag the callback
\* had just written, and its last_run_key.
C16_FailedSaveLeavesBoth ==
    [][(lastOp' = "on_schedule_settings_change" /\ effects'[1].error) =>
          /\ effects'[1].call = "save_schedule"
          /\ ~effects'[1].raised
          /\ Called(effects', "init_database") # {}
          /\ db'.schedule_settings = db.schedule_settings
          /\ Loaded(db') = Loaded(db)
          /\ session_state'.schedule_time = effects'[1].check_time
          /\ session_state'.schedule_enabled = effects'[1].is_enabled
          /\ session_state'.last_run_key = session_state.last_run_key]_vars

C16_Witness ==
    /\ lastOp = "on_schedule_settings_change"
    /\ effects[1].error
    /\ HasRecord(db)
    /\ Loaded(db) # <<effects[1].check_time, effects[1].is_enabled>>
    /\ <<session_state.schedule_time, session_state.schedule_enabled>> =
          <<effects[1].check_time, effects[1].is_enabled>>

C18_SessionEqualsRecord ==
    (Ready /\ lastOp \in {"open_session", "on_schedule_settings_change"}) =>
        <<session_state.schedule_time, session_state.schedule_enabled>> = Loaded(db)

====
